---- MODULE Spec2Model ----
(***************************************************************************)
(* Model of src/src/App.tsx: the folder-to-record image upload side bar.   *)
(* Strings are sequences of Unicode code points, files are records with a  *)
(* name and a webkitRelativePath, field values are tagged records.         *)
(***************************************************************************)
EXTENDS Integers, Sequences, FiniteSets, TLC

VARIABLES
    table,          \* useState table: TRUE once the active table was obtained
    fieldMetaList,  \* useState fieldMetaList: sequence of [id, type]
    matchFieldId,   \* useState matchFieldId
    uploadFieldId,  \* useState uploadFieldId
    maxImages,      \* useState maxImages
    priorityKeyword,\* useState priorityKeyword
    selectedFiles,  \* useState selectedFiles
    logs,           \* useState logs, most recent first
    busy,           \* useState busy
    initError,      \* useState initError: TRUE once init() failed
    records,        \* the host table as the run finds it: sequence of [id, value]
    pc,             \* position of the running runUpload ("idle" when none)
    run,            \* the locals of the running runUpload
    writes,         \* the uploadField.setValue calls of the current run, in order
    runs,           \* number of runs started
    fnIn,           \* input of the pure function under study
    fnOut,          \* its result
    fnPc            \* "in" before, "out" after the function was applied

vars == <<table, fieldMetaList, matchFieldId, uploadFieldId, maxImages, priorityKeyword,
          selectedFiles, logs, busy, initError, records, pc, run, writes, runs, fnIn, fnOut,
          fnPc>>

appVars == <<table, fieldMetaList, matchFieldId, uploadFieldId, maxImages, priorityKeyword,
             selectedFiles, logs, busy, initError, records, pc, run, writes, runs>>

fnVars == <<fnIn, fnOut, fnPc>>

(***************************************************************************)
(* Code points                                                             *)
(***************************************************************************)
SP == 32
ISP == 12288
TAB == 9
LPAREN == 40
RPAREN == 41
HYPHEN == 45
FU == 21103
BEN == 26412
FENG == 23553
MIAN == 38754
SLASH == 47
BACKSLASH == 92
DOT == 46
COMMA == 44
DIGIT0 == 48
DIGIT9 == 57

\* the class \s of the regular expressions, over the code points of the model
IsSpace(c) == c \in {SP, ISP, TAB}

\* the class \d
IsDigit(c) == c >= DIGIT0 /\ c <= DIGIT9

AllSpaces(s, lo, hi) == \A k \in lo..hi : IsSpace(s[k])

AllDigits(s, lo, hi) == \A k \in lo..hi : IsDigit(s[k])

\* s.slice(i - 1): the suffix of s that starts at position i (1-based)
Tail_(s, i) == SubSeq(s, i, Len(s))

(***************************************************************************)
(* normalizeWhitespace                                                     *)
(***************************************************************************)
\* input.replace(/　/g, " ")
ReplaceIdeographic(s) == [k \in 1..Len(s) |-> IF s[k] = ISP THEN SP ELSE s[k]]

\* .replace(/\s+/g, " "): every maximal whitespace run becomes one space
RECURSIVE CollapseFrom(_, _)
CollapseFrom(s, k) ==
    IF k > Len(s) THEN <<>>
    ELSE IF IsSpace(s[k])
         THEN IF k > 1 /\ IsSpace(s[k - 1]) THEN CollapseFrom(s, k + 1)
              ELSE <<SP>> \o CollapseFrom(s, k + 1)
         ELSE <<s[k]>> \o CollapseFrom(s, k + 1)

CollapseSpaces(s) == CollapseFrom(s, 1)

\* .trim()
Trim(s) ==
    LET keep == {k \in 1..Len(s) : ~IsSpace(s[k])}
    IN  IF keep = {} THEN <<>>
        ELSE SubSeq(s, CHOOSE k \in keep : \A j \in keep : k <= j,
                       CHOOSE k \in keep : \A j \in keep : k >= j)

normalizeWhitespace(input) == Trim(CollapseSpaces(ReplaceIdeographic(input)))

(***************************************************************************)
(* Field values: string | number | boolean | null | array | object         *)
(***************************************************************************)
Val(t, s, n, keys, items) == [t |-> t, s |-> s, n |-> n, keys |-> keys, items |-> items]

VNull == Val("null", <<>>, 0, <<>>, <<>>)
VStr(s) == Val("str", s, 0, <<>>, <<>>)
VNum(n) == Val("num", <<>>, n, <<>>, <<>>)
VBool(b) == Val("bool", <<>>, IF b THEN 1 ELSE 0, <<>>, <<>>)
VArr(items) == Val("arr", <<>>, 0, <<>>, items)
VObj(keys, items) == Val("obj", <<>>, 0, keys, items)

\* String(n) of an integer: its decimal digits, "-" in front when negative
RECURSIVE Decimal(_)
Decimal(n) == IF n < 10 THEN <<DIGIT0 + n>> ELSE Decimal(n \div 10) \o <<DIGIT0 + (n % 10)>>

NumberToString(n) == IF n < 0 THEN <<HYPHEN>> \o Decimal(0 - n) ELSE Decimal(n)

\* String(true), String(false)
BooleanToString(b) == IF b = 1 THEN <<116, 114, 117, 101>> ELSE <<102, 97, 108, 115, 101>>

\* String(value) of a plain object: "[object Object]"
ObjectToString == <<91, 111, 98, 106, 101, 99, 116, SP, 79, 98, 106, 101, 99, 116, 93>>

HasKey(obj, key) == \E k \in 1..Len(obj.keys) : obj.keys[k] = key

Field(obj, key) == obj.items[CHOOSE k \in 1..Len(obj.keys) : obj.keys[k] = key]

\* typeof obj.<key> === "string"
IsStringField(obj, key) == HasKey(obj, key) /\ Field(obj, key).t = "str"

\* items.filter(Boolean).join(",") over already normalized strings
RECURSIVE JoinNonEmpty(_)
JoinNonEmpty(strs) ==
    IF strs = <<>> THEN <<>>
    ELSE LET rest == JoinNonEmpty(Tail(strs))
         IN  IF Head(strs) = <<>> THEN rest
             ELSE IF rest = <<>> THEN Head(strs)
             ELSE Head(strs) \o <<COMMA>> \o rest

\* the mutant of normalizeTextField: the attribute is returned as it is
normalizeTextField_raw(obj, key) == Field(obj, key).s

\* return normalizeWhitespace(obj.text) (and .name, .display, .value)
normalizeTextField(obj, key) == normalizeWhitespace(Field(obj, key).s)

\* depth > 3
DepthCap == 3

RECURSIVE normalizeMatchValue(_, _)
normalizeMatchValue(value, depth) ==
    IF depth > DepthCap THEN <<>>
    ELSE IF value.t = "null" THEN <<>>
    ELSE IF value.t = "str" THEN normalizeWhitespace(value.s)
    ELSE IF value.t = "num" THEN NumberToString(value.n)
    ELSE IF value.t = "bool" THEN BooleanToString(value.n)
    ELSE IF value.t = "arr"
         THEN JoinNonEmpty([k \in 1..Len(value.items) |->
                               normalizeMatchValue(value.items[k], depth + 1)])
    ELSE IF IsStringField(value, "text") THEN normalizeTextField(value, "text")
    ELSE IF HasKey(value, "text_arr") /\ Field(value, "text_arr").t = "arr"
         THEN LET arr == Field(value, "text_arr").items
              IN  JoinNonEmpty([k \in 1..Len(arr) |->
                                   normalizeMatchValue(arr[k], depth + 1)])
    ELSE IF IsStringField(value, "name") THEN normalizeTextField(value, "name")
    ELSE IF IsStringField(value, "display") THEN normalizeTextField(value, "display")
    ELSE IF IsStringField(value, "value") THEN normalizeTextField(value, "value")
    ELSE normalizeWhitespace(ObjectToString)

(***************************************************************************)
(* normalizeFolderName                                                     *)
(***************************************************************************)
\* t matches ^\s*\(\d+\)\s*$
MatchesParenTail(t) ==
    \E p \in 1..Len(t) : \E q \in (p + 2)..Len(t) :
        /\ t[p] = LPAREN
        /\ t[q] = RPAREN
        /\ AllSpaces(t, 1, p - 1)
        /\ AllDigits(t, p + 1, q - 1)
        /\ AllSpaces(t, q + 1, Len(t))

\* t matches ^\s*-\s*副本$
MatchesCopyTail(t) ==
    \E p \in 1..Len(t) :
        /\ t[p] = HYPHEN
        /\ AllSpaces(t, 1, p - 1)
        /\ Len(t) >= p + 2
        /\ t[Len(t) - 1] = FU
        /\ t[Len(t)] = BEN
        /\ AllSpaces(t, p + 1, Len(t) - 2)

\* s.replace(re, "") for a regular expression anchored at the end: the match
\* starts at the leftmost position whose suffix matches.
\* base.replace(/\s*\(\d+\)\s*$/, "")
StripParenSuffix(s) ==
    LET starts == {k \in 1..Len(s) : MatchesParenTail(Tail_(s, k))}
    IN  IF starts = {} THEN s
        ELSE SubSeq(s, 1, (CHOOSE k \in starts : \A j \in starts : k <= j) - 1)

\* .replace(/\s*-\s*副本$/, "")
StripCopySuffix(s) ==
    LET starts == {k \in 1..Len(s) : MatchesCopyTail(Tail_(s, k))}
    IN  IF starts = {} THEN s
        ELSE SubSeq(s, 1, (CHOOSE k \in starts : \A j \in starts : k <= j) - 1)

\* the mutant of StripCopySuffixes: the " - 副本" replace is missing
StripCopySuffixes_parenOnly(base) == StripParenSuffix(base)

\* base.replace(/\s*\(\d+\)\s*$/, "").replace(/\s*-\s*副本$/, "")
StripCopySuffixes(base) == StripCopySuffix(StripParenSuffix(base))

normalizeFolderName(folder) ==
    LET base == normalizeWhitespace(folder)
        cleaned == StripCopySuffixes(base)
    IN  normalizeMatchValue(VStr(cleaned), 0)

(***************************************************************************)
(* Files and groupFilesByFolder                                            *)
(***************************************************************************)
File(name, path) == [name |-> name, webkitRelativePath |-> path]

\* str.split(/[\\/]/): the pieces between separators, empty pieces included
RECURSIVE SplitFrom(_, _, _)
SplitFrom(s, k, cur) ==
    IF k > Len(s) THEN <<cur>>
    ELSE IF s[k] = SLASH \/ s[k] = BACKSLASH
         THEN <<cur>> \o SplitFrom(s, k + 1, <<>>)
         ELSE SplitFrom(s, k + 1, Append(cur, s[k]))

SplitPath(s) == SplitFrom(s, 1, <<>>)

\* .filter(Boolean) on strings: the empty ones are dropped
NonEmptyOnly(parts) == SelectSeq(parts, LAMBDA x : x # <<>>)

getRelativePath(file) ==
    LET path == IF file.webkitRelativePath # <<>> THEN file.webkitRelativePath ELSE file.name
    IN  IF path # <<>> /\ path[1] = SLASH THEN Tail(path) ELSE path

\* "constructor": a key every object literal inherits from Object.prototype
KeyConstructor == <<99, 111, 110, 115, 116, 114, 117, 99, 116, 111, 114>>

\* keys for which grouped[folder] is truthy on the empty object literal
InheritedKeys == {KeyConstructor}

\* the mutant of GroupKey: the root segment is never dropped
GroupKey_keepRoot(parts, root) == IF Len(parts) < 2 THEN <<>> ELSE <<parts[1]>>

\* the mutant of GroupKey: the folder next to the file is taken
GroupKey_parent(parts, root) ==
    LET withoutRoot == IF parts[1] = root THEN Tail(parts) ELSE parts
    IN  IF Len(withoutRoot) < 2 THEN <<>> ELSE <<withoutRoot[Len(withoutRoot) - 1]>>

\* the folder a file with the segments parts is grouped under, as <<folder>>,
\* or <<>> when the file is skipped
GroupKey(parts, root) ==
    LET withoutRoot == IF parts[1] = root THEN Tail(parts) ELSE parts
    IN  IF Len(withoutRoot) < 2 THEN <<>> ELSE <<withoutRoot[1]>>

\* grouped[folder] = grouped[folder] || []; grouped[folder].push(file)
\* grouped is the sequence of own properties [folder, files] in creation order
PushFile(grouped, folder, file) ==
    IF \E k \in 1..Len(grouped) : grouped[k].folder = folder
    THEN [k \in 1..Len(grouped) |->
             IF grouped[k].folder = folder
             THEN [grouped[k] EXCEPT !.files = Append(@, file)]
             ELSE grouped[k]]
    ELSE Append(grouped, [folder |-> folder, files |-> <<file>>])

RECURSIVE GroupFrom(_, _, _, _)
GroupFrom(files, k, root, acc) ==
    IF k > Len(files) \/ acc.threw THEN acc
    ELSE LET parts == NonEmptyOnly(SplitPath(getRelativePath(files[k])))
             key == IF parts = <<>> THEN <<>> ELSE GroupKey(parts, root)
         IN  IF key = <<>> THEN GroupFrom(files, k + 1, root, acc)
             ELSE IF key[1] \in InheritedKeys
                  THEN [acc EXCEPT !.threw = TRUE]
                  ELSE GroupFrom(files, k + 1, root,
                           [acc EXCEPT !.props = PushFile(@, key[1], files[k])])

\* result: [threw, props]; threw is the TypeError of .push on an inherited key
groupFilesByFolder(files) ==
    IF files = <<>> THEN [threw |-> FALSE, props |-> <<>>]
    ELSE GroupFrom(files, 1, SplitPath(getRelativePath(files[1]))[1],
                   [threw |-> FALSE, props |-> <<>>])

\* value of a digit string
RECURSIVE DigitsValue(_)
DigitsValue(ds) ==
    IF ds = <<>> THEN 0 ELSE 10 * DigitsValue(SubSeq(ds, 1, Len(ds) - 1)) + (ds[Len(ds)] - DIGIT0)

\* a property key that is a canonical array index (a decimal numeral without
\* leading zero, at most 2^32 - 2): Object.entries lists these first, in
\* ascending numeric order.  Keys of up to 9 digits are all below that limit;
\* longer digit keys are outside the folder names of the model
IsArrayIndex(key) ==
    /\ key # <<>>
    /\ Len(key) <= 9
    /\ AllDigits(key, 1, Len(key))
    /\ (Len(key) = 1 \/ key[1] # DIGIT0)

RECURSIVE InsertIndexKey(_, _)
InsertIndexKey(sorted, e) ==
    IF sorted = <<>> THEN <<e>>
    ELSE IF DigitsValue(e.folder) < DigitsValue(Head(sorted).folder)
         THEN <<e>> \o sorted
         ELSE <<Head(sorted)>> \o InsertIndexKey(Tail(sorted), e)

RECURSIVE SortIndexKeys(_)
SortIndexKeys(props) ==
    IF props = <<>> THEN <<>>
    ELSE InsertIndexKey(SortIndexKeys(SubSeq(props, 1, Len(props) - 1)), props[Len(props)])

\* Object.entries(groupedFiles)
ObjectEntries(props) ==
    SortIndexKeys(SelectSeq(props, LAMBDA e : IsArrayIndex(e.folder)))
        \o SelectSeq(props, LAMBDA e : ~IsArrayIndex(e.folder))

(***************************************************************************)
(* orderFiles                                                              *)
(***************************************************************************)
\* primary collation weight of a code point under the zh-CN collation:
\* white space, punctuation, digits, Latin letters, then Han by pinyin
\* (ben, feng, fu, mian for the four Han code points of the model)
CollationWeight(c) ==
    IF IsSpace(c) THEN 0
    ELSE IF IsDigit(c) THEN 1000 + c
    ELSE IF c >= 65 /\ c <= 90 THEN 2000 + c + 32
    ELSE IF c >= 97 /\ c <= 122 THEN 2000 + c
    ELSE IF c = BEN THEN 3001
    ELSE IF c = FENG THEN 3002
    ELSE IF c = FU THEN 3003
    ELSE IF c = MIAN THEN 3004
    ELSE IF c > 127 THEN 4000 + c
    ELSE 100 + c

\* a.localeCompare(b, "zh-CN"): negative, zero or positive
RECURSIVE localeCompare(_, _)
localeCompare(a, b) ==
    IF a = <<>> /\ b = <<>> THEN 0
    ELSE IF a = <<>> THEN -1
    ELSE IF b = <<>> THEN 1
    ELSE IF CollationWeight(Head(a)) < CollationWeight(Head(b)) THEN -1
    ELSE IF CollationWeight(Head(a)) > CollationWeight(Head(b)) THEN 1
    ELSE localeCompare(Tail(a), Tail(b))

\* Array.prototype.sort is stable: x goes before the first element it is
\* smaller than.  cover.sort / others.sort: by name
RECURSIVE InsertByName(_, _)
InsertByName(sorted, x) ==
    IF sorted = <<>> THEN <<x>>
    ELSE IF localeCompare(x.name, Head(sorted).name) < 0 THEN <<x>> \o sorted
    ELSE <<Head(sorted)>> \o InsertByName(Tail(sorted), x)

RECURSIVE SortByName(_)
SortByName(s) ==
    IF s = <<>> THEN <<>>
    ELSE InsertByName(SortByName(SubSeq(s, 1, Len(s) - 1)), s[Len(s)])

\* a.value - b.value || a.file.name.localeCompare(b.file.name, "zh-CN")
CompareNumbered(a, b) ==
    IF a.value - b.value # 0 THEN a.value - b.value
    ELSE localeCompare(a.file.name, b.file.name)

\* numbered.sort
RECURSIVE InsertNumbered(_, _)
InsertNumbered(sorted, x) ==
    IF sorted = <<>> THEN <<x>>
    ELSE IF CompareNumbered(x, Head(sorted)) < 0 THEN <<x>> \o sorted
    ELSE <<Head(sorted)>> \o InsertNumbered(Tail(sorted), x)

RECURSIVE SortNumbered(_)
SortNumbered(s) ==
    IF s = <<>> THEN <<>>
    ELSE InsertNumbered(SortNumbered(SubSeq(s, 1, Len(s) - 1)), s[Len(s)])

\* name.replace(/\.[^.]+$/, "")
BaseName(name) ==
    LET dots == {k \in 1..Len(name) : name[k] = DOT}
        last == CHOOSE k \in dots : \A j \in dots : k >= j
    IN  IF dots = {} \/ last = Len(name) THEN name ELSE SubSeq(name, 1, last - 1)

\* name.includes(keyword)
Includes(name, keyword) ==
    \E k \in 1..(Len(name) - Len(keyword) + 1) :
        SubSeq(name, k, k + Len(keyword) - 1) = keyword

\* base.match(/\d+/g): whether there is a digit run
HasDigits(base) == \E k \in 1..Len(base) : IsDigit(base[k])

\* nums[nums.length - 1]: the last maximal digit run of base
LastDigitRun(base) ==
    LET ds == {k \in 1..Len(base) : IsDigit(base[k])}
        hi == CHOOSE k \in ds : \A j \in ds : k >= j
        starts == {k \in 1..hi : AllDigits(base, k, hi)}
        lo == CHOOSE k \in starts : \A j \in starts : k <= j
    IN  SubSeq(base, lo, hi)

\* parseInt(nums[nums.length - 1], 10)
LastNumber(name) == DigitsValue(LastDigitRun(BaseName(name)))

\* the bucket of one file in the classification pass
IsCover(file, keyword) == keyword # <<>> /\ Includes(file.name, keyword)

IsNumbered(file, keyword) == ~IsCover(file, keyword) /\ HasDigits(BaseName(file.name))

IsOther(file, keyword) == ~IsCover(file, keyword) /\ ~IsNumbered(file, keyword)

\* the mutant of ConcatTiers: numbered files are put before the cover files
ConcatTiers_numberedFirst(cover, numbered, others) == numbered \o cover \o others

\* [...cover, ...numbered.map((item) => item.file), ...others]
ConcatTiers(cover, numbered, others) == cover \o numbered \o others

orderFiles(files, keyword) ==
    LET cover == SelectSeq(files, LAMBDA f : IsCover(f, keyword))
        numFiles == SelectSeq(files, LAMBDA f : IsNumbered(f, keyword))
        numbered == [k \in 1..Len(numFiles) |->
                        [value |-> LastNumber(numFiles[k].name), file |-> numFiles[k]]]
        others == SelectSeq(files, LAMBDA f : IsOther(f, keyword))
        sortedNum == SortNumbered(numbered)
    IN  ConcatTiers(SortByName(cover),
                    [k \in 1..Len(sortedNum) |-> sortedNum[k].file],
                    SortByName(others))

(***************************************************************************)
(* State of the component after construction (the useState initial values) *)
(***************************************************************************)
DefaultMaxImages == 10

DefaultKeyword == <<FENG, MIAN>>

NoRun == [files |-> <<>>, groupedFiles |-> <<>>, maxImages |-> 0, keyword |-> <<>>,
          recordIds |-> <<>>, i |-> 0, matchMap |-> <<>>, groups |-> <<>>, g |-> 0,
          limit |-> 0, success |-> 0, failed |-> 0, skipped |-> 0,
          recordId |-> "", uploadList |-> <<>>, exit |-> "none"]

AppConstructed ==
    /\ table = FALSE
    /\ fieldMetaList = <<>>
    /\ matchFieldId = ""
    /\ uploadFieldId = ""
    /\ maxImages = DefaultMaxImages
    /\ priorityKeyword = DefaultKeyword
    /\ selectedFiles = <<>>
    /\ logs = <<>>
    /\ busy = FALSE
    /\ initError = FALSE
    /\ pc = "idle"
    /\ run = NoRun
    /\ writes = <<>>
    /\ runs = 0

(***************************************************************************)
(* normalizeFolderName applied to a name and to the name with a suffix     *)
(***************************************************************************)
MaxNameLen == 3
MaxCopyNumber == 10

FolderAlphabet == {97, SP, ISP, LPAREN, RPAREN, DIGIT0 + 1, HYPHEN, FU, BEN}

\* s + " (N)"
WithParenSuffix(s, n) == s \o <<SP, LPAREN>> \o NumberToString(n) \o <<RPAREN>>

\* s + " - 副本"
WithCopySuffix(s) == s \o <<SP, HYPHEN, SP, FU, BEN>>

FolderInit ==
    /\ AppConstructed
    /\ records = <<>>
    /\ fnIn = [s |-> <<>>, kind |-> "none", n |-> 0]
    /\ fnOut = [plain |-> <<>>, suffixed |-> <<>>]
    /\ fnPc = "in"

FolderAppendChar ==
    /\ fnPc = "in"
    /\ Len(fnIn.s) < MaxNameLen
    /\ \E c \in FolderAlphabet : fnIn' = [fnIn EXCEPT !.s = Append(@, c)]
    /\ UNCHANGED <<fnOut, fnPc>>
    /\ UNCHANGED appVars

FolderApplyParen ==
    /\ fnPc = "in"
    /\ \E n \in 0..MaxCopyNumber :
          /\ fnIn' = [fnIn EXCEPT !.kind = "paren", !.n = n]
          /\ fnOut' = [plain |-> normalizeFolderName(fnIn.s),
                       suffixed |-> normalizeFolderName(WithParenSuffix(fnIn.s, n))]
    /\ fnPc' = "out"
    /\ UNCHANGED appVars

FolderApplyCopy ==
    /\ fnPc = "in"
    /\ fnIn' = [fnIn EXCEPT !.kind = "copy"]
    /\ fnOut' = [plain |-> normalizeFolderName(fnIn.s),
                 suffixed |-> normalizeFolderName(WithCopySuffix(fnIn.s))]
    /\ fnPc' = "out"
    /\ UNCHANGED appVars

FolderNext == FolderAppendChar \/ FolderApplyParen \/ FolderApplyCopy

SpecFolderName == FolderInit /\ [][FolderNext]_vars

\* C7 (as stated): for every folder name s and every N >= 0,
\* normalizeFolderName(s + " (N)") = normalizeFolderName(s) and
\* normalizeFolderName(s + " - 副本") = normalizeFolderName(s)
C7_SuffixAlwaysAbsorbed == fnPc = "out" => fnOut.suffixed = fnOut.plain

\* s carries no trailing copy suffix of its own: stripping leaves its
\* whitespace-normalized form as it is
NoOwnSuffix(s) == normalizeFolderName(s) = normalizeWhitespace(s)

\* C7 (amended): for every folder name s that does not itself end in a copy
\* suffix and every N >= 0, the name with " (N)" or " - 副本" appended gets
\* the key of s; one suffix is absorbed, not a chain of them
C7_OneSuffixAbsorbed ==
    (fnPc = "out" /\ NoOwnSuffix(fnIn.s)) => fnOut.suffixed = fnOut.plain

C7_Witness ==
    /\ fnPc = "out"
    /\ fnIn.kind = "copy"
    /\ NoOwnSuffix(fnIn.s)
    /\ fnOut.plain = <<97, SP, 97>>
    /\ fnOut.suffixed = fnOut.plain
    /\ Len(fnIn.s) = 3 /\ fnIn.s[2] = ISP

(***************************************************************************)
(* normalizeMatchValue applied once and twice to a field value             *)
(***************************************************************************)
MaxNest == 5

AtomValues ==
    { VNull, VStr(<<>>), VStr(<<97>>), VStr(<<SP, 97, ISP, SP, 98, SP>>),
      VNum(12), VNum(-3), VBool(TRUE), VBool(FALSE),
      VObj(<<"text">>, <<VStr(<<SP, 97>>)>>),
      VObj(<<"text", "name">>, <<VNum(1), VStr(<<98, TAB, TAB, 99>>)>>),
      VObj(<<"id">>, <<VNum(7)>>) }

\* the ways the value under study is put inside a larger one
Wrappings(v) ==
    { VArr(<<v>>),
      VArr(<<VStr(<<SP>>), v, VStr(<<98, SP>>)>>),
      VObj(<<"text_arr">>, <<VArr(<<v, VNum(0)>>)>>),
      VObj(<<"display">>, <<v>>) }

NormInit ==
    /\ AppConstructed
    /\ records = <<>>
    /\ fnIn \in [v : AtomValues, nest : {0}]
    /\ fnOut = [once |-> <<>>, twice |-> <<>>]
    /\ fnPc = "in"

NormWrap ==
    /\ fnPc = "in"
    /\ fnIn.nest < MaxNest
    /\ \E w \in Wrappings(fnIn.v) : fnIn' = [v |-> w, nest |-> fnIn.nest + 1]
    /\ UNCHANGED <<fnOut, fnPc>>
    /\ UNCHANGED appVars

NormApply ==
    /\ fnPc = "in"
    /\ LET once == normalizeMatchValue(fnIn.v, 0)
       IN  fnOut' = [once |-> once, twice |-> normalizeMatchValue(VStr(once), 0)]
    /\ fnPc' = "out"
    /\ UNCHANGED fnIn
    /\ UNCHANGED appVars

NormNext == NormWrap \/ NormApply

SpecNormalize == NormInit /\ [][NormNext]_vars

\* C8: normalizeMatchValue(normalizeMatchValue(x)) = normalizeMatchValue(x)
\* for every value x of any shape, nested below or beyond the depth cap
C8_Idempotent == fnPc = "out" => fnOut.twice = fnOut.once

C8_Witness ==
    /\ fnPc = "out"
    /\ fnIn.nest > DepthCap + 1
    /\ fnIn.v.t = "obj"
    /\ fnOut.once = <<98, COMMA, DIGIT0>>
    /\ fnOut.twice = fnOut.once

(***************************************************************************)
(* orderFiles applied to a list of files and a keyword                     *)
(***************************************************************************)
MaxOrderFiles == 4

PNG == <<DOT, 112, 110, 103>>

\* "02.png" "封面.png" "01.png" "note.png" "v2_10.png" "封面3.png" "9a.png"
OrderNames ==
    { <<DIGIT0, DIGIT0 + 2>> \o PNG,
      <<FENG, MIAN>> \o PNG,
      <<DIGIT0, DIGIT0 + 1>> \o PNG,
      <<110, 111, 116, 101>> \o PNG,
      <<118, DIGIT0 + 2, 95, DIGIT0 + 1, DIGIT0>> \o PNG,
      <<FENG, MIAN, DIGIT0 + 3>> \o PNG,
      <<DIGIT9, 97>> \o PNG }

OrderKeywords == {<<>>, <<FENG, MIAN>>, <<DIGIT0>>}

OrderInit ==
    /\ AppConstructed
    /\ records = <<>>
    /\ fnIn \in [files : {<<>>}, keyword : OrderKeywords]
    /\ fnOut = <<>>
    /\ fnPc = "in"

OrderAddFile ==
    /\ fnPc = "in"
    /\ Len(fnIn.files) < MaxOrderFiles
    /\ \E name \in OrderNames :
          fnIn' = [fnIn EXCEPT !.files = Append(@, File(name, <<120, SLASH>> \o name))]
    /\ UNCHANGED <<fnOut, fnPc>>
    /\ UNCHANGED appVars

OrderApply ==
    /\ fnPc = "in"
    /\ fnOut' = orderFiles(fnIn.files, fnIn.keyword)
    /\ fnPc' = "out"
    /\ UNCHANGED fnIn
    /\ UNCHANGED appVars

OrderNext == OrderAddFile \/ OrderApply

SpecOrder == OrderInit /\ [][OrderNext]_vars

Count(seq, x) == Cardinality({k \in 1..Len(seq) : seq[k] = x})

IsPermutation(a, b) ==
    /\ Len(a) = Len(b)
    /\ \A k \in 1..Len(a) : Count(a, a[k]) = Count(b, a[k])

\* the name without its final extension, as the claim words it
ClaimBase(name) ==
    IF \E k \in 1..(Len(name) - 1) : name[k] = DOT /\ \A j \in (k + 1)..Len(name) : name[j] # DOT
    THEN SubSeq(name, 1, (CHOOSE k \in 1..(Len(name) - 1) :
                             name[k] = DOT /\ \A j \in (k + 1)..Len(name) : name[j] # DOT) - 1)
    ELSE name

\* the tier the claim puts a file in: 1 cover, 2 numbered, 3 the rest
ClaimTier(file, keyword) ==
    IF keyword # <<>> /\ \E k \in 1..Len(file.name) : \E j \in k..Len(file.name) :
                            SubSeq(file.name, k, j) = keyword
    THEN 1
    ELSE IF \E k \in 1..Len(ClaimBase(file.name)) : IsDigit(ClaimBase(file.name)[k]) THEN 2
    ELSE 3

\* the integer value of the last digit run of the base name
ClaimLastRunValue(name) ==
    LET base == ClaimBase(name)
        hi == CHOOSE k \in 1..Len(base) :
                  IsDigit(base[k]) /\ \A j \in (k + 1)..Len(base) : ~IsDigit(base[j])
        lo == CHOOSE k \in 1..hi :
                  /\ \A j \in k..hi : IsDigit(base[j])
                  /\ (k = 1 \/ ~IsDigit(base[k - 1]))
    IN  DigitsValue(SubSeq(base, lo, hi))

\* C5: orderFiles returns a permutation of its input, the tiers in the order
\* cover (name contains the non-empty keyword), numbered (other files whose
\* base name has a digit run, ascending by the value of the last run), rest;
\* with an empty keyword the cover tier is empty
C5_TieredPermutation ==
    fnPc = "out" =>
        /\ IsPermutation(fnIn.files, fnOut)
        /\ \A p \in 1..Len(fnOut) : \A q \in (p + 1)..Len(fnOut) :
              /\ ClaimTier(fnOut[p], fnIn.keyword) <= ClaimTier(fnOut[q], fnIn.keyword)
              /\ (ClaimTier(fnOut[p], fnIn.keyword) = 2 /\ ClaimTier(fnOut[q], fnIn.keyword) = 2)
                    => ClaimLastRunValue(fnOut[p].name) <= ClaimLastRunValue(fnOut[q].name)
        /\ fnIn.keyword = <<>> => \A p \in 1..Len(fnOut) : ClaimTier(fnOut[p], fnIn.keyword) # 1

\* the listing of the spec's example with "v2_10.png" in front, keyword 封面
C5_Witness ==
    /\ fnPc = "out"
    /\ fnIn.keyword = <<FENG, MIAN>>
    /\ Len(fnOut) = 4
    /\ fnIn.files[1].name = <<118, DIGIT0 + 2, 95, DIGIT0 + 1, DIGIT0>> \o PNG
    /\ fnOut[1].name = <<FENG, MIAN>> \o PNG
    /\ fnOut[2].name = <<DIGIT0, DIGIT0 + 2>> \o PNG
    /\ fnOut[3].name = <<118, DIGIT0 + 2, 95, DIGIT0 + 1, DIGIT0>> \o PNG
    /\ fnOut[4].name = <<110, 111, 116, 101>> \o PNG

(***************************************************************************)
(* groupFilesByFolder applied to a listing                                 *)
(***************************************************************************)
MaxListing == 3

\* a file whose webkitRelativePath is the given folders and then its name
FileAt(dirs, name) ==
    File(name, IF dirs = <<>> THEN name ELSE dirs \o <<SLASH>> \o name)

Png(c) == <<c>> \o PNG

\* A/X/1.png  B/Y/2.png  A/3.png  A/X/s/4.png  A/X/t/5.png  B/6.png
\* A/constructor/7.png  A/10/8.png  A/2/9.png  0.png
GroupListingFiles ==
    { FileAt(<<65, SLASH, 88>>, Png(DIGIT0 + 1)),
      FileAt(<<66, SLASH, 89>>, Png(DIGIT0 + 2)),
      FileAt(<<65>>, Png(DIGIT0 + 3)),
      FileAt(<<65, SLASH, 88, SLASH, 115>>, Png(DIGIT0 + 4)),
      FileAt(<<65, SLASH, 88, SLASH, 116>>, Png(DIGIT0 + 5)),
      FileAt(<<66>>, Png(DIGIT0 + 6)),
      FileAt(<<65, SLASH>> \o KeyConstructor, Png(DIGIT0 + 7)),
      FileAt(<<65, SLASH, DIGIT0 + 1, DIGIT0>>, Png(DIGIT0 + 8)),
      FileAt(<<65, SLASH, DIGIT0 + 2>>, Png(DIGIT9)),
      FileAt(<<>>, Png(DIGIT0)) }

GroupInit ==
    /\ AppConstructed
    /\ records = <<>>
    /\ fnIn = <<>>
    /\ fnOut = [threw |-> FALSE, props |-> <<>>]
    /\ fnPc = "in"

GroupAddFile ==
    /\ fnPc = "in"
    /\ Len(fnIn) < MaxListing
    /\ \E f \in GroupListingFiles : fnIn' = Append(fnIn, f)
    /\ UNCHANGED <<fnOut, fnPc>>
    /\ UNCHANGED appVars

GroupApply ==
    /\ fnPc = "in"
    /\ fnOut' = groupFilesByFolder(fnIn)
    /\ fnPc' = "out"
    /\ UNCHANGED fnIn
    /\ UNCHANGED appVars

GroupNext == GroupAddFile \/ GroupApply

SpecGroup == GroupInit /\ [][GroupNext]_vars

\* the non-empty segments of a file's path, as the claims read a path
Segments(file) == NonEmptyOnly(SplitPath(file.webkitRelativePath))

HeterogeneousListing ==
    << FileAt(<<65, SLASH, 88>>, Png(DIGIT0 + 1)), FileAt(<<66, SLASH, 89>>, Png(DIGIT0 + 2)) >>

GroupsAre(out, expected) == ~out.threw /\ out.props = expected

\* C6 (as stated): A/X/1.png followed by B/Y/2.png gives exactly the groups
\* X (holding 1.png) and Y (holding 2.png)
C6_GroupsXandY ==
    (fnPc = "out" /\ fnIn = HeterogeneousListing) =>
        GroupsAre(fnOut, << [folder |-> <<88>>, files |-> <<HeterogeneousListing[1]>>],
                            [folder |-> <<89>>, files |-> <<HeterogeneousListing[2]>>] >>)

\* the folder the amended claim puts a file under, as <<folder>>, or <<>>:
\* the second segment when the first is the root, else the first segment
ClaimFolder(file, root) ==
    LET segs == Segments(file)
    IN  IF segs = <<>> THEN <<>>
        ELSE IF segs[1] = root
             THEN (IF Len(segs) >= 3 THEN <<segs[2]>> ELSE <<>>)
             ELSE (IF Len(segs) >= 2 THEN <<segs[1]>> ELSE <<>>)

\* C6 (amended): A/X/1.png followed by B/Y/2.png gives exactly the groups X
\* (holding 1.png) and B (holding 2.png); in general a file whose first
\* segment is the first file's first segment is grouped under its second
\* segment, and any other file under its own top-level folder
C6_GroupsXandB ==
    (fnPc = "out" /\ ~fnOut.threw) =>
        /\ fnIn = HeterogeneousListing =>
              fnOut.props = << [folder |-> <<88>>, files |-> <<HeterogeneousListing[1]>>],
                               [folder |-> <<66>>, files |-> <<HeterogeneousListing[2]>>] >>
        /\ \A k \in 1..Len(fnIn) :
              LET want == ClaimFolder(fnIn[k], Segments(fnIn[1])[1])
              IN  \A j \in 1..Len(fnOut.props) :
                      (Count(fnOut.props[j].files, fnIn[k]) > 0)
                          <=> (want = <<fnOut.props[j].folder>>)

C6_Witness ==
    /\ fnPc = "out"
    /\ fnIn = HeterogeneousListing
    /\ Len(fnOut.props) = 2
    /\ fnOut.props[2].folder = <<66>>

\* the path segment directly before the file name
ParentName(file) == Segments(file)[Len(Segments(file)) - 1]

\* C10 (as stated): all files of one group share the same immediate parent
\* folder name
C10_SameParent ==
    (fnPc = "out" /\ ~fnOut.threw) =>
        \A j \in 1..Len(fnOut.props) :
            \A a, b \in 1..Len(fnOut.props[j].files) :
                ParentName(fnOut.props[j].files[a]) = ParentName(fnOut.props[j].files[b])

\* C10 (amended): all files of one group share the path segment the group is
\* keyed by, the first segment below the root (the top-level segment for a
\* file outside the root); that is the immediate parent only of the files
\* that sit exactly one level below it, deeper files join the same group
C10_SameGroupSegment ==
    (fnPc = "out" /\ ~fnOut.threw) =>
        \A j \in 1..Len(fnOut.props) :
            \A a \in 1..Len(fnOut.props[j].files) :
                LET segs == Segments(fnOut.props[j].files[a])
                    below == IF segs[1] = Segments(fnIn[1])[1] THEN Tail(segs) ELSE segs
                IN  /\ Len(below) >= 2
                    /\ below[1] = fnOut.props[j].folder
                    /\ (Len(below) = 2 => ParentName(fnOut.props[j].files[a]) = fnOut.props[j].folder)

C10_Witness ==
    /\ fnPc = "out"
    /\ ~fnOut.threw
    /\ Len(fnOut.props) = 1
    /\ Len(fnOut.props[1].files) = 3
    /\ fnOut.props[1].folder = <<88>>
    /\ ParentName(fnOut.props[1].files[1]) = <<88>>
    /\ ParentName(fnOut.props[1].files[2]) = <<115>>
    /\ ParentName(fnOut.props[1].files[3]) = <<116>>

(***************************************************************************)
(* The App component: state, handlers and runUpload                        *)
(***************************************************************************)
\* .slice(0, 500)
LogCap == 500

\* arr.slice(0, end) with JavaScript's treatment of a negative end
SliceTo(arr, end) ==
    LET stop == IF end < 0 THEN (IF Len(arr) + end < 0 THEN 0 ELSE Len(arr) + end)
                ELSE (IF end > Len(arr) THEN Len(arr) ELSE end)
    IN  SubSeq(arr, 1, stop)

LogLine(kind, n1, n2, n3, text) ==
    [kind |-> kind, n1 |-> n1, n2 |-> n2, n3 |-> n3, text |-> text]

\* the mutant of appendLog: the message is put behind the older ones
appendLog_atEnd(prev, message) == SliceTo(prev \o <<message>>, LogCap)

\* setLogs((prev) => [message, ...prev].slice(0, 500))
appendLog(prev, message) == SliceTo(<<message>> \o prev, LogCap)

\* "jpg" "jpeg" "png" "gif" "bmp" "webp"
SUPPORTED_IMAGE_EXTS ==
    << <<106, 112, 103>>, <<106, 112, 101, 103>>, <<112, 110, 103>>,
       <<103, 105, 102>>, <<98, 109, 112>>, <<119, 101, 98, 112>> >>

toLowerCase(str) == [k \in 1..Len(str) |-> IF str[k] >= 65 /\ str[k] <= 90 THEN str[k] + 32 ELSE str[k]]

\* file.name.split(".").pop()
LastDotPiece(name) ==
    LET dots == {k \in 1..Len(name) : name[k] = DOT}
    IN  IF dots = {} THEN name
        ELSE SubSeq(name, (CHOOSE k \in dots : \A j \in dots : k >= j) + 1, Len(name))

isSupportedImage(file) ==
    \E k \in 1..Len(SUPPORTED_IMAGE_EXTS) :
        SUPPORTED_IMAGE_EXTS[k] = toLowerCase(LastDotPiece(file.name))

\* the mutant of Limit: the floor of 1 is missing
Limit_noFloor(n) == n

\* Math.max(1, maxImages || 0)
Limit(n) ==
    LET m == IF n # 0 THEN n ELSE 0
    IN  IF m > 1 THEN m ELSE 1

\* matchMap.get(key): <<recordId>> or <<>>
MapGet(map, key) ==
    IF \E k \in 1..Len(map) : map[k].key = key
    THEN <<map[CHOOSE k \in 1..Len(map) : map[k].key = key].recordId>>
    ELSE <<>>

\* matchMap.set(key, recordId): a present key keeps its place, its value is replaced
MapSet(map, key, recordId) ==
    IF \E k \in 1..Len(map) : map[k].key = key
    THEN [k \in 1..Len(map) |-> IF map[k].key = key THEN [map[k] EXCEPT !.recordId = recordId]
                                ELSE map[k]]
    ELSE Append(map, [key |-> key, recordId |-> recordId])

(***************************************************************************)
(* The environment the component is explored in                            *)
(***************************************************************************)
MaxImagesInput == 2
MaxIdleLogs == 1
MaxRuns == 1

Alice == <<65, 108, 105, 99, 101>>
Bob == <<66, 111, 98>>
Carol == <<67, 97, 114, 111, 108>>
Root == <<112>>

\* the field lists getFieldMetaList may return
MetaLists ==
    { << [id |-> "fldText", type |-> "Text"], [id |-> "fldPics", type |-> "Attachment"] >>,
      << [id |-> "fldPics", type |-> "Attachment"] >> }

\* the records of the host table with the value of their match field
RecordTables ==
    { << [id |-> "r1", value |-> VStr(Alice \o <<SP>>)],
         [id |-> "r2", value |-> VObj(<<"text">>, <<VStr(<<ISP>> \o Bob)>>)],
         [id |-> "r3", value |-> VNum(7)] >>,
      << [id |-> "r1", value |-> VStr(Alice)],
         [id |-> "r2", value |-> VArr(<<VObj(<<"text">>, <<VStr(Alice)>>), VNull>>)],
         [id |-> "r3", value |-> VNull] >>,
      <<>> }

InRoot(dirs, name) == FileAt(IF dirs = <<>> THEN Root ELSE Root \o <<SLASH>> \o dirs, name)

\* what the folder picker or a drop can deliver (event.target.files)
Listings ==
    { \* p/a.png  p/b.png
      << InRoot(<<>>, Png(97)), InRoot(<<>>, Png(98)) >>,
      \* p/01.png  p/x.txt
      << InRoot(<<>>, <<DIGIT0, DIGIT0 + 1>> \o PNG), InRoot(<<>>, <<120, DOT, 116, 120, 116>>) >>,
      \* p/Alice/02.png  p/Alice/封面.png  p/Alice/01.png  p/Carol/1.PNG  p/Alice/x.txt
      << InRoot(Alice, <<DIGIT0, DIGIT0 + 2>> \o PNG),
         InRoot(Alice, <<FENG, MIAN>> \o PNG),
         InRoot(Alice, <<DIGIT0, DIGIT0 + 1>> \o PNG),
         InRoot(Carol, <<DIGIT0 + 1, DOT, 80, 78, 71>>),
         InRoot(Alice, <<120, DOT, 116, 120, 116>>) >>,
      \* p/Bob - 副本/note.png  p/Alice (2)/1.png  p/7/x.png
      << InRoot(WithCopySuffix(Bob), <<110, 111, 116, 101>> \o PNG),
         InRoot(WithParenSuffix(Alice, 2), Png(DIGIT0 + 1)),
         InRoot(<<DIGIT0 + 7>>, Png(120)) >>,
      \* p/Alice/10.png  p/Alice/9.png  p/Alice/封面.png  p/Alice/sub/v2_3.png  p/a.png
      << InRoot(Alice, <<DIGIT0 + 1, DIGIT0>> \o PNG),
         InRoot(Alice, Png(DIGIT9)),
         InRoot(Alice, <<FENG, MIAN>> \o PNG),
         InRoot(Alice \o <<SLASH, 115, 117, 98>>, <<118, DIGIT0 + 2, 95, DIGIT0 + 3>> \o PNG),
         InRoot(<<>>, Png(97)) >>,
      \* p/Carol/1.png  p/7/2.png  p/Bob/3.png
      << InRoot(Carol, Png(DIGIT0 + 1)),
         InRoot(<<DIGIT0 + 7>>, Png(DIGIT0 + 2)),
         InRoot(Bob, Png(DIGIT0 + 3)) >>,
      \* p/x.txt
      << InRoot(<<>>, <<120, DOT, 116, 120, 116>>) >>,
      <<>> }

Keywords == {<<>>, <<FENG, MIAN>>, <<DIGIT0>>}

Init ==
    /\ AppConstructed
    /\ records = <<>>
    /\ fnIn = <<>>
    /\ fnOut = <<>>
    /\ fnPc = "in"

\* no run is in progress and the configuration may still be edited
Editable == pc = "idle" /\ runs = 0

\* the second useEffect: pick the first Text/Number field and the first
\* Attachment field while none is selected
AutoSelect(metaList, current, wanted) ==
    IF metaList # <<>> /\ current = "" /\ \E k \in 1..Len(metaList) : metaList[k].type \in wanted
    THEN metaList[CHOOSE k \in 1..Len(metaList) :
                      /\ metaList[k].type \in wanted
                      /\ \A j \in 1..(k - 1) : metaList[j].type \notin wanted].id
    ELSE current

\* field.type === FieldType.Text || field.type === FieldType.Number
TextTypes == {"Text", "Number"}

\* field.type === FieldType.Attachment
AttachmentTypes == {"Attachment"}

\* init() of the first useEffect, the table and its fields were obtained
InitEffectOk ==
    /\ Editable /\ ~table /\ ~initError
    /\ \E metaList \in MetaLists :
          /\ fieldMetaList' = metaList
          /\ matchFieldId' = AutoSelect(metaList, matchFieldId, TextTypes)
          /\ uploadFieldId' = AutoSelect(metaList, uploadFieldId, AttachmentTypes)
    /\ table' = TRUE
    /\ UNCHANGED <<maxImages, priorityKeyword, selectedFiles, logs, busy, initError, records,
                   pc, run, writes, runs, fnVars>>

\* init() of the first useEffect, getActiveTable or getFieldMetaList threw
InitEffectFail ==
    /\ Editable /\ ~table /\ ~initError
    /\ initError' = TRUE
    /\ logs' = appendLog(logs, LogLine("initFailed", 0, 0, 0, <<>>))
    /\ UNCHANGED <<table, fieldMetaList, matchFieldId, uploadFieldId, maxImages,
                   priorityKeyword, selectedFiles, busy, records, pc, run, writes, runs, fnVars>>

\* onChange of the two field selects, followed by the second useEffect
SetMatchFieldId ==
    /\ Editable
    /\ \E v \in {""} \cup {fieldMetaList[k].id : k \in 1..Len(fieldMetaList)} :
          matchFieldId' = AutoSelect(fieldMetaList, v, TextTypes)
    /\ UNCHANGED <<table, fieldMetaList, uploadFieldId, maxImages, priorityKeyword,
                   selectedFiles, logs, busy, initError, records, pc, run, writes, runs, fnVars>>

SetUploadFieldId ==
    /\ Editable
    /\ \E v \in {""} \cup {fieldMetaList[k].id : k \in 1..Len(fieldMetaList)} :
          uploadFieldId' = AutoSelect(fieldMetaList, v, AttachmentTypes)
    /\ UNCHANGED <<table, fieldMetaList, matchFieldId, maxImages, priorityKeyword,
                   selectedFiles, logs, busy, initError, records, pc, run, writes, runs, fnVars>>

\* onChange of the cap input: setMaxImages(Number(e.target.value) || 1)
SetMaxImages ==
    /\ Editable
    /\ \E n \in -1..MaxImagesInput : maxImages' = IF n # 0 THEN n ELSE 1
    /\ UNCHANGED <<table, fieldMetaList, matchFieldId, uploadFieldId, priorityKeyword,
                   selectedFiles, logs, busy, initError, records, pc, run, writes, runs, fnVars>>

SetPriorityKeyword ==
    /\ Editable
    /\ \E kw \in Keywords : priorityKeyword' = kw
    /\ UNCHANGED <<table, fieldMetaList, matchFieldId, uploadFieldId, maxImages,
                   selectedFiles, logs, busy, initError, records, pc, run, writes, runs, fnVars>>

handleFolderChange ==
    /\ Editable /\ Len(logs) < MaxIdleLogs
    /\ \E files \in Listings :
          LET imageFiles == SelectSeq(files, isSupportedImage)
          IN  /\ selectedFiles' = imageFiles
              /\ logs' = IF files = <<>>
                         THEN appendLog(logs, LogLine("noFiles", 0, 0, 0, <<>>))
                         ELSE appendLog(logs, LogLine("selected", Len(imageFiles),
                                                      Len(files) - Len(imageFiles), 0, <<>>))
    /\ UNCHANGED <<table, fieldMetaList, matchFieldId, uploadFieldId, maxImages,
                   priorityKeyword, busy, initError, records, pc, run, writes, runs, fnVars>>

\* handleDrop: items were dropped and read, or reading them threw
handleDrop ==
    /\ Editable /\ Len(logs) < MaxIdleLogs
    /\ LET reading == appendLog(logs, LogLine("readingDrop", 0, 0, 0, <<>>))
       IN  \/ /\ logs' = appendLog(reading, LogLine("noItems", 0, 0, 0, <<>>))
              /\ UNCHANGED selectedFiles
           \/ \E files \in Listings \ {<<>>} :
                 LET imageFiles == SelectSeq(files, isSupportedImage)
                 IN  /\ selectedFiles' = imageFiles
                     /\ logs' = appendLog(reading, LogLine("dropped", Len(imageFiles),
                                                           Len(files) - Len(imageFiles), 0, <<>>))
           \/ /\ logs' = appendLog(reading, LogLine("dropFailed", 0, 0, 0, <<>>))
              /\ UNCHANGED selectedFiles
    /\ UNCHANGED <<table, fieldMetaList, matchFieldId, uploadFieldId, maxImages,
                   priorityKeyword, busy, initError, records, pc, run, writes, runs, fnVars>>

\* onClick of the clear button, disabled while busy
ClearLogs ==
    /\ Editable /\ ~busy /\ logs # <<>>
    /\ logs' = <<>>
    /\ UNCHANGED <<table, fieldMetaList, matchFieldId, uploadFieldId, maxImages,
                   priorityKeyword, selectedFiles, busy, initError, records, pc, run, writes,
                   runs, fnVars>>

(***************************************************************************)
(* runUpload                                                               *)
(***************************************************************************)
appUnchangedByRun ==
    UNCHANGED <<table, fieldMetaList, matchFieldId, uploadFieldId, maxImages,
                priorityKeyword, selectedFiles, initError, fnVars>>

\* lines 166-177: a setup check fails, one line is logged and nothing starts
RunUploadRefused ==
    /\ pc = "idle" /\ runs < MaxRuns /\ Len(logs) < MaxIdleLogs
    /\ \/ ~table
       \/ matchFieldId = "" \/ uploadFieldId = ""
       \/ selectedFiles = <<>>
    /\ logs' = appendLog(logs,
                  IF ~table THEN LogLine("noTable", 0, 0, 0, <<>>)
                  ELSE IF matchFieldId = "" \/ uploadFieldId = ""
                       THEN LogLine("noFields", 0, 0, 0, <<>>)
                  ELSE LogLine("noSelection", 0, 0, 0, <<>>))
    /\ UNCHANGED <<busy, pc, run, writes, runs>>
    /\ UNCHANGED records
    /\ appUnchangedByRun

\* lines 179-183: the checks pass; the closure holds the values of this render
RunUploadStart ==
    /\ pc = "idle" /\ runs < MaxRuns
    /\ table /\ matchFieldId # "" /\ uploadFieldId # "" /\ selectedFiles # <<>>
    /\ ~groupFilesByFolder(selectedFiles).threw
    /\ busy' = TRUE
    /\ logs' = appendLog(<<>>, LogLine("fetching", 0, 0, 0, <<>>))
    /\ run' = [NoRun EXCEPT !.files = selectedFiles,
                            !.groupedFiles = groupFilesByFolder(selectedFiles).props,
                            !.maxImages = maxImages,
                            !.keyword = priorityKeyword]
    /\ writes' = <<>>
    /\ runs' = runs + 1
    /\ pc' = "getRecordIdList"
    /\ UNCHANGED records
    /\ appUnchangedByRun

\* catch (err) at line 274, reached from any await outside the inner try
Caught(r) == [r EXCEPT !.exit = "error"]

RunError == LogLine("runError", 0, 0, 0, <<>>)

\* line 184: await table.getRecordIdList()
GetRecordIdList ==
    /\ pc = "getRecordIdList"
    /\ \/ \E found \in RecordTables :
             /\ records' = found
             /\ run' = [run EXCEPT !.recordIds = [k \in 1..Len(found) |-> found[k].id]]
             /\ pc' = "getField"
             /\ UNCHANGED logs
       \/ /\ run' = Caught(run)
          /\ logs' = appendLog(logs, RunError)
          /\ pc' = "finally"
          /\ UNCHANGED records
    /\ UNCHANGED <<busy, writes, runs>>
    /\ appUnchangedByRun

\* lines 185-186: await table.getField(...) twice
GetFields ==
    /\ pc = "getField"
    /\ \/ /\ run' = [run EXCEPT !.i = 1]
          /\ pc' = "readRecords"
          /\ UNCHANGED logs
       \/ /\ run' = Caught(run)
          /\ logs' = appendLog(logs, RunError)
          /\ pc' = "finally"
    /\ UNCHANGED <<busy, writes, runs>>
    /\ UNCHANGED records
    /\ appUnchangedByRun

\* lines 192-194: if (key) matchMap.set(key, recordId)
IndexRecord(map, key, recordId) == IF key # <<>> THEN MapSet(map, key, recordId) ELSE map

\* lines 189-198: one pass of the loop over recordIds
ReadRecord ==
    /\ pc = "readRecords"
    /\ run.i <= Len(run.recordIds)
    /\ \/ LET recordId == run.recordIds[run.i]
              value == records[run.i].value
              key == normalizeMatchValue(value, 0)
          IN  /\ run' = [run EXCEPT !.matchMap = IndexRecord(@, key, recordId), !.i = @ + 1]
              /\ logs' = appendLog(logs, LogLine("recordKey", run.i, 0, 0, key))
              /\ pc' = "readRecords"
       \/ /\ run' = Caught(run)
          /\ logs' = appendLog(logs, RunError)
          /\ pc' = "finally"
    /\ UNCHANGED <<busy, writes, runs>>
    /\ UNCHANGED records
    /\ appUnchangedByRun

\* lines 200-222: the index is built; the groups are listed and checked
ListGroups ==
    /\ pc = "readRecords"
    /\ run.i > Len(run.recordIds)
    /\ LET groups == ObjectEntries(run.groupedFiles)
           counted == appendLog(logs, LogLine("recordsRead", Len(run.recordIds),
                                              Len(run.matchMap), 0, <<>>))
       IN  IF groups = <<>>
           THEN /\ logs' = appendLog(counted, LogLine("noSubfolders", 0, 0, 0, <<>>))
                /\ run' = [run EXCEPT !.exit = "nogroups"]
                /\ pc' = "finally"
           ELSE /\ logs' = appendLog(appendLog(counted,
                                         LogLine("folderKeys", Len(groups), 0, 0, <<>>)),
                                     LogLine("matchKeys", Len(run.matchMap), 0, 0, <<>>))
                /\ run' = [run EXCEPT !.groups = groups, !.g = 1, !.success = 0, !.failed = 0,
                                      !.skipped = 0, !.limit = Limit(run.maxImages)]
                /\ pc' = "loop"
    /\ UNCHANGED <<busy, writes, runs>>
    /\ UNCHANGED records
    /\ appUnchangedByRun

\* the mutant of SkipGroup: the skip is not counted
SkipGroup_notCounted(r) == [r EXCEPT !.g = @ + 1]

\* skipped += 1; continue
SkipGroup(r) == [r EXCEPT !.skipped = @ + 1, !.g = @ + 1]

\* lines 225-256: a group is looked up; it is skipped or its upload list is
\* built and uploadField.setValue is called
ProcessGroup ==
    /\ pc = "loop"
    /\ run.g <= Len(run.groups)
    /\ LET folder == run.groups[run.g].folder
           files == run.groups[run.g].files
           begun == appendLog(logs, LogLine("folder", run.g, 0, 0, folder))
           folderKey == normalizeFolderName(folder)
           found == MapGet(run.matchMap, folderKey)
           ordered == orderFiles(files, run.keyword)
           uploadList == SliceTo(ordered, run.limit)
           warned == IF Len(files) > run.limit
                     THEN appendLog(begun, LogLine("overLimit", Len(files), run.limit, 0, <<>>))
                     ELSE begun
       IN  IF found = <<>>
           THEN /\ logs' = appendLog(begun, LogLine("noMatch", run.g, 0, 0, folderKey))
                /\ run' = SkipGroup(run)
                /\ pc' = "loop"
                /\ UNCHANGED writes
           ELSE IF uploadList = <<>>
           THEN /\ logs' = appendLog(begun, LogLine("noImages", run.g, 0, 0, <<>>))
                /\ run' = SkipGroup(run)
                /\ pc' = "loop"
                /\ UNCHANGED writes
           ELSE /\ logs' = appendLog(warned, LogLine("uploadOrder", Len(uploadList), 0, 0, <<>>))
                /\ run' = [run EXCEPT !.recordId = found[1], !.uploadList = uploadList]
                /\ writes' = Append(writes, [g |-> run.g, recordId |-> found[1],
                                             files |-> uploadList, result |-> "pending"])
                /\ pc' = "setValue"
    /\ UNCHANGED <<busy, runs>>
    /\ UNCHANGED records
    /\ appUnchangedByRun

Settle(ws, result) == [ws EXCEPT ![Len(ws)].result = result]

\* lines 260-263: the write was accepted
SetValueResolved ==
    /\ pc = "setValue"
    /\ writes' = Settle(writes, "ok")
    /\ logs' = appendLog(logs, LogLine("updated", Len(run.uploadList), 0, 0, <<>>))
    /\ run' = [run EXCEPT !.success = @ + 1, !.g = @ + 1]
    /\ pc' = "loop"
    /\ UNCHANGED <<busy, runs>>
    /\ UNCHANGED records
    /\ appUnchangedByRun

\* the mutant of AfterRejection: the failure ends the loop
AfterRejection_break(r) == [r EXCEPT !.failed = @ + 1, !.g = Len(r.groups) + 1]

\* lines 264-268: failed += 1, and the loop goes on with the next group
AfterRejection(r) == [r EXCEPT !.failed = @ + 1, !.g = @ + 1]

\* lines 264-268: the write was rejected
SetValueRejected ==
    /\ pc = "setValue"
    /\ writes' = Settle(writes, "rejected")
    /\ logs' = appendLog(logs, LogLine("uploadFailed", 0, 0, 0, <<>>))
    /\ run' = AfterRejection(run)
    /\ pc' = "loop"
    /\ UNCHANGED <<busy, runs>>
    /\ UNCHANGED records
    /\ appUnchangedByRun

\* lines 271-273: the loop is over, the summary is logged
Summary ==
    /\ pc = "loop"
    /\ run.g > Len(run.groups)
    /\ logs' = appendLog(logs, LogLine("summary", run.success, run.failed, run.skipped, <<>>))
    /\ run' = [run EXCEPT !.exit = "summary"]
    /\ pc' = "finally"
    /\ UNCHANGED <<busy, writes, runs>>
    /\ UNCHANGED records
    /\ appUnchangedByRun

\* the finally block left out: the run ends and busy keeps its value
Finally_keepBusy ==
    /\ pc = "finally"
    /\ run' = NoRun
    /\ writes' = <<>>
    /\ records' = <<>>
    /\ pc' = "idle"
    /\ UNCHANGED <<busy, logs, runs>>
    /\ appUnchangedByRun

\* lines 277-279: setBusy(false); the locals of the run are gone
Finally ==
    /\ pc = "finally"
    /\ busy' = FALSE
    /\ run' = NoRun
    /\ writes' = <<>>
    /\ records' = <<>>
    /\ pc' = "idle"
    /\ UNCHANGED <<logs, runs>>
    /\ appUnchangedByRun

Next ==
    \/ InitEffectOk \/ InitEffectFail
    \/ SetMatchFieldId \/ SetUploadFieldId \/ SetMaxImages \/ SetPriorityKeyword
    \/ handleFolderChange \/ handleDrop \/ ClearLogs
    \/ RunUploadRefused \/ RunUploadStart
    \/ GetRecordIdList \/ GetFields \/ ReadRecord \/ ListGroups
    \/ ProcessGroup \/ SetValueResolved \/ SetValueRejected \/ Summary \/ Finally

Spec == Init /\ [][Next]_vars

(***************************************************************************)
(* Properties of runUpload                                                 *)
(***************************************************************************)
\* the run is inside the loop over the groups or has just logged its summary
InGroupLoop == pc \in {"loop", "setValue"} \/ (pc = "finally" /\ run.exit = "summary")

\* the groups whose pass through the loop is complete
DoneGroups == 1..(run.g - 1)

\* the normalized key of group j is a key of the match map
KeyPresent(j) ==
    \E k \in 1..Len(run.matchMap) :
        run.matchMap[k].key = normalizeFolderName(run.groups[j].folder)

WritesOf(j) == {k \in 1..Len(writes) : writes[k].g = j}

WritesWith(result) == {k \in 1..Len(writes) : writes[k].result = result}

\* C1: at the summary success + failed + skipped is the number of groups;
\* each group adds one to exactly one counter; a group whose normalized key is
\* absent from the match map is skipped and gets no write, a group whose key
\* is present is handed to setValue
C1_Partition ==
    InGroupLoop =>
        /\ run.success + run.failed + run.skipped = Cardinality(DoneGroups)
        /\ (pc = "finally") => (run.success + run.failed + run.skipped = Len(run.groups))
        /\ run.skipped = Cardinality({j \in DoneGroups : ~KeyPresent(j)})
        /\ \A j \in DoneGroups :
              /\ ~KeyPresent(j) => WritesOf(j) = {}
              /\ KeyPresent(j) =>
                    /\ Cardinality(WritesOf(j)) = 1
                    /\ \A k \in WritesOf(j) :
                          /\ writes[k].recordId = MapGet(run.matchMap,
                                                     normalizeFolderName(run.groups[j].folder))[1]
                          /\ writes[k].files # <<>>

C1_Witness ==
    /\ pc = "finally"
    /\ run.exit = "summary"
    /\ Len(run.groups) = 2
    /\ run.groups[1].folder = Alice /\ run.groups[2].folder = Carol
    /\ run.success = 1 /\ run.skipped = 1 /\ run.failed = 0
    /\ Len(writes) = 1 /\ writes[1].recordId = "r1"

\* C2: a rejected write adds one to failed and nothing to success or skipped,
\* the group gets no second write, every later group is still looked up and,
\* if matched, written, and the run reaches its summary
C2_RejectionIsolated ==
    InGroupLoop =>
        /\ run.failed = Cardinality(WritesWith("rejected"))
        /\ run.success = Cardinality(WritesWith("ok"))
        /\ run.success + run.failed + run.skipped = Cardinality(DoneGroups)
        /\ \A k \in WritesWith("rejected") :
              /\ WritesOf(writes[k].g) = {k}
              /\ \A j \in (writes[k].g + 1)..Len(run.groups) :
                    (pc = "finally" /\ KeyPresent(j)) => WritesOf(j) # {}
              /\ (pc = "finally") => (run.exit = "summary" /\ run.g = Len(run.groups) + 1)

C2_Witness ==
    /\ pc = "finally"
    /\ run.exit = "summary"
    /\ Len(writes) = 3
    /\ writes[1].result = "rejected"
    /\ writes[2].result = "ok"
    /\ writes[3].result = "rejected"
    /\ run.failed = 2 /\ run.success = 1 /\ run.skipped = 0

\* every file sits directly in the one root: its path is root/name
AllDepthOne(files) ==
    /\ files # <<>>
    /\ \A k \in 1..Len(files) :
          /\ Len(Segments(files[k])) = 2
          /\ Segments(files[k])[1] = Segments(files[1])[1]

\* C3: when every selected file sits at depth 1, groupFilesByFolder yields no
\* group, the run never enters the loop and never calls setValue, and a run
\* that gets to the group check ends on the "no sub-folders" diagnostic
C3_ZeroGroupsAbort ==
    (pc # "idle" /\ AllDepthOne(run.files)) =>
        /\ groupFilesByFolder(run.files) = [threw |-> FALSE, props |-> <<>>]
        /\ run.groupedFiles = <<>>
        /\ writes = <<>>
        /\ pc \notin {"loop", "setValue"}
        /\ run.exit # "summary"
        /\ (pc = "finally" /\ run.exit # "error") =>
              (run.exit = "nogroups" /\ logs[1].kind = "noSubfolders")

C3_Witness ==
    /\ pc = "finally"
    /\ AllDepthOne(run.files)
    /\ Len(run.files) = 2
    /\ run.exit = "nogroups"
    /\ Len(run.matchMap) = 3
    /\ logs[1].kind = "noSubfolders"
    /\ writes = <<>>

Min(a, b) == IF a < b THEN a ELSE b

InSeq(seq, x) == \E k \in 1..Len(seq) : seq[k] = x

\* C4: the list handed to setValue is the first min(n, L) elements of
\* orderFiles(files, priorityKeyword), L = max(1, maxImages); so a non-cover
\* file is uploaded only if every cover file of the group is, and a numbered
\* file only if every numbered file with a smaller number is
C4_CappedPrefix ==
    \A k \in 1..Len(writes) :
        LET files == run.groups[writes[k].g].files
            cap == IF run.maxImages > 1 THEN run.maxImages ELSE 1
            sent == writes[k].files
        IN  /\ sent = SubSeq(orderFiles(files, run.keyword), 1, Min(Len(files), cap))
            /\ \A a \in 1..Len(sent) : \A b \in 1..Len(files) :
                  /\ (ClaimTier(sent[a], run.keyword) # 1 /\ ClaimTier(files[b], run.keyword) = 1)
                        => InSeq(sent, files[b])
                  /\ (/\ ClaimTier(sent[a], run.keyword) = 2
                      /\ ClaimTier(files[b], run.keyword) = 2
                      /\ ClaimLastRunValue(files[b].name) < ClaimLastRunValue(sent[a].name))
                        => InSeq(sent, files[b])

\* p/Alice holds 10.png 9.png 封面.png sub/v2_3.png; a cap of 2 keeps the
\* cover and the lowest number
C4_Witness ==
    /\ pc = "setValue"
    /\ run.maxImages = 2
    /\ run.keyword = <<FENG, MIAN>>
    /\ Len(run.groups[1].files) = 4
    /\ Len(writes) = 1
    /\ Len(writes[1].files) = 2
    /\ writes[1].files[1].name = <<FENG, MIAN>> \o PNG
    /\ writes[1].files[2].name = <<118, DIGIT0 + 2, 95, DIGIT0 + 3>> \o PNG

SummaryLines == {k \in 1..Len(logs) : logs[k].kind = "summary"}

\* C9 (as stated): on each exit path the run ends with exactly one summary
\* line carrying the counts, and it is the most recent log entry
C9_SummaryOnEveryExit ==
    (pc = "finally") =>
        /\ Cardinality(SummaryLines) = 1
        /\ logs[1].kind = "summary"

\* C9 (amended): a run that gets through the loop over the groups ends with
\* exactly one summary line carrying success, failed and skipped, and it is
\* the most recent log entry; the zero-groups abort ends on the "no
\* sub-folders" line and an exception of the record source on the run-error
\* line, both without any summary line
C9_SummaryOnLoopExit ==
    (pc = "finally") =>
        /\ run.exit \in {"summary", "nogroups", "error"}
        /\ (run.exit = "summary") =>
              /\ Cardinality(SummaryLines) = 1
              /\ logs[1] = LogLine("summary", run.success, run.failed, run.skipped, <<>>)
        /\ (run.exit = "nogroups") =>
              (SummaryLines = {} /\ logs[1].kind = "noSubfolders")
        /\ (run.exit = "error") =>
              (SummaryLines = {} /\ logs[1].kind = "runError")

C9_Witness ==
    /\ pc = "finally"
    /\ run.exit = "summary"
    /\ logs[1] = LogLine("summary", 1, 1, 1, <<>>)
    /\ Len(logs) > 10

(***************************************************************************)
(* busy brackets the run                                                   *)
(***************************************************************************)
\* lines 166-177: none of the three early returns is taken
SetupChecksPass ==
    table /\ matchFieldId # "" /\ uploadFieldId # "" /\ selectedFiles # <<>>

\* line 426: <button ... disabled={busy}>
startDisabled == busy

\* how far runUpload has got: the stage it is in, and what is left of the
\* loop of that stage (records still to read; groups still to process,
\* counted twice, less one while setValue is awaited)
RunStage ==
    CASE pc = "getRecordIdList" -> 5
      [] pc = "getField" -> 4
      [] pc = "readRecords" -> 3
      [] pc \in {"loop", "setValue"} -> 2
      [] pc = "finally" -> 1
      [] OTHER -> 0

RunLeft ==
    CASE pc = "readRecords" -> Len(run.recordIds) + 1 - run.i
      [] pc = "loop" -> 2 * (Len(run.groups) + 1 - run.g)
      [] pc = "setValue" -> 2 * (Len(run.groups) + 1 - run.g) - 1
      [] OTHER -> 0

\* C11: busy becomes true only in a step taken with the table present, both
\* fields selected and files selected; busy is true exactly while a started
\* run has not left its finally block, so it is false whenever no run is in
\* progress and the start button is enabled then; a run is left only
\* through the finally block, which the summary, the zero-groups abort and
\* an exception of the record source all reach, and that step sets busy to
\* false; and every step of a run brings it nearer to that block (a later
\* stage, or less left of a loop that never counts below zero), so a run
\* whose external calls return does end
C11_BusyBracketsRun ==
    /\ [][(~busy /\ busy') => (SetupChecksPass /\ pc = "idle" /\ pc' # "idle")]_vars
    /\ [](busy <=> pc # "idle")
    /\ [](startDisabled => pc # "idle")
    /\ [](pc = "finally" => run.exit \in {"summary", "nogroups", "error"})
    /\ [][(pc # "idle" /\ pc' = "idle") => (pc = "finally" /\ ~busy')]_vars
    /\ [](RunLeft >= 0)
    /\ [][pc # "idle" =>
             \/ RunStage' < RunStage
             \/ RunStage' = RunStage /\ RunLeft' < RunLeft]_vars

\* a run that set busy and was ended by an exception of the record source
\* is over, and the start button is enabled again
C11_Witness ==
    /\ pc = "idle"
    /\ runs >= 1
    /\ ~startDisabled
    /\ logs # <<>>
    /\ logs[1].kind = "runError"

====
